---- MODULE Spec2Model ----
(* Model of onlinejudge_command/main.py: the run pipeline of the `oj`       *)
(* command (parse, configure logging, check update, run_program, the        *)
(* except clauses of main).  One action per step of main / run_program.     *)
EXTENDS Integers, Sequences, FiniteSets, TLC

VARIABLES pc, args, rootLevel, rootHandlers, basicConfigCalls, is_updated,
          advisoryOutcome, advisoryQueries, invoked, outcome, out,
          exitCode, escaped, steps

vars == <<pc, args, rootLevel, rootHandlers, basicConfigCalls, is_updated,
          advisoryOutcome, advisoryQueries, invoked, outcome, out,
          exitCode, escaped, steps>>

----------------------------------------------------------------------------
(* Bounds *)

\* sys.exit(c) inside a handler: c ranges over 0..MaxExitCode
MaxExitCode == 2

----------------------------------------------------------------------------
(* Values *)

\* args.subcommand when no subcommand token was given (Python None)
NoToken == "<None>"

\* a token that no branch of run_program tests for
UnknownToken == "bogus"

\* the names tested by the if/elif chain of run_program
TableTokens ==
    {"download", "d", "dl", "login", "l", "submit", "s", "test", "t",
     "test-reactive", "t/r", "generate-output", "g/o", "generate-input", "g/i"}

SubcommandTokens == TableTokens \cup {NoToken, UnknownToken}

\* result of the if/elif chain when the else branch is taken
NotFound == "<not found>"

\* utils.default_cookie_path, the default of -c/--cookie
default_cookie_path == "default_cookie_path"

CookieOptions == {NoToken, "custom.jar"}

\* version.__version__ and api_version.__version__
tool_version == "version.__version__"

api_client_version == "api_version.__version__"

\* message texts a handler's exception may carry
Messages == {"boom", "", "NotImplementedError"}

\* logging levels, by their numeric value in the logging module
DEBUG == 10

INFO == 20

ERROR == 40

\* level of the root logger before basicConfig (logging.WARNING)
WARNING == 30

----------------------------------------------------------------------------
(* Exceptions *)

ExcClasses == {"NotImplementedError", "RuntimeError", "Exception", "SystemExit"}

\* base class of each exception class (Python's built-in hierarchy)
BaseOf(cls) ==
    CASE cls = "NotImplementedError" -> "RuntimeError"
      [] cls = "RuntimeError" -> "Exception"
      [] cls = "Exception" -> "BaseException"
      [] cls = "SystemExit" -> "BaseException"
      [] OTHER -> "object"

RECURSIVE IsSubclass(_, _)
IsSubclass(cls, base) ==
    IF cls = base THEN TRUE
    ELSE IF cls = "object" THEN FALSE
    ELSE IsSubclass(BaseOf(cls), base)

\* variant: the two except clauses in the opposite order
except_clause_swapped(cls) ==
    IF IsSubclass(cls, "Exception") THEN 2
    ELSE IF IsSubclass(cls, "NotImplementedError") THEN 1
    ELSE 0

\* variant: only the `except NotImplementedError` clause
except_clause_first_only(cls) ==
    IF IsSubclass(cls, "NotImplementedError") THEN 1 ELSE 0

\* variant: the second clause is a bare `except:`
except_clause_bare(cls) ==
    IF IsSubclass(cls, "NotImplementedError") THEN 1 ELSE 2

\* which except clause of main's try statement handles an exception of class
\* cls raised by run_program: 1 = `except NotImplementedError`,
\* 2 = `except Exception`, 0 = none (the exception leaves main)
except_clause(cls) ==
    IF IsSubclass(cls, "NotImplementedError") THEN 1
    ELSE IF IsSubclass(cls, "Exception") THEN 2
    ELSE 0

----------------------------------------------------------------------------
(* Output *)

Printed(stream, text) ==
    [stream |-> stream, via |-> "print", level |-> 0, text |-> text,
     exc_info |-> FALSE]

\* a log call on `logger`: the record reaches every handler of the root
\* logger when its level is at least the root logger's level
Log(o, lvl, hs, level, text, exc) ==
    IF level >= lvl
    THEN o \o [i \in 1..Len(hs) |->
                 [stream |-> hs[i], via |-> "log", level |-> level,
                  text |-> text, exc_info |-> exc]]
    ELSE o

Contains(text, fragment) == \E i \in 1..Len(text) : text[i] = fragment

----------------------------------------------------------------------------
(* Pure parts of main and run_program *)

\* parser.parse_args: the Namespace built from the command line; the cookie
\* path falls back to utils.default_cookie_path
parse_args(verbose, cookie, version, subcommand) ==
    [verbose |-> verbose,
     cookie |-> IF cookie = NoToken THEN default_cookie_path ELSE cookie,
     version |-> version,
     subcommand |-> subcommand]

\* exit status of argparse's usage error
UsageErrorExitCode == 2

\* variant: the verbose flag is ignored
level_for_info_only(verbose) == INFO

\* main, "configure the logger": level = INFO; if parsed.verbose: level = DEBUG
level_for(verbose) == IF verbose THEN DEBUG ELSE INFO

\* StreamHandler(sys.stdout)
handler_stream == "stdout"

\* update_checking.run(): True when the installed version is current, and
\* also when the check itself failed
AdvisoryOutcomes == {"current", "not current", "error"}

update_checking_run(o) == o # "not current"

\* variant: the API-client version is left out
version_line_tool_only == <<"online-judge-tools", tool_version>>

\* run_program: the line printed for --version
version_line ==
    <<"online-judge-tools", tool_version,
      "(+ online-judge-api-client", api_client_version, ")">>

\* run_program: the version line logged at INFO before dispatch
version_log_line ==
    <<"online-judge-tools", tool_version,
      "(+ online-judge-api-client", api_client_version, ")">>

\* sys.exit(0) after the version line
VersionExitCode == 0

\* variant: the alias t is also listed under test-reactive
Entries_colliding ==
    << [names |-> {"download", "d", "dl"}, handler |-> "download"],
       [names |-> {"login", "l"}, handler |-> "login"],
       [names |-> {"submit", "s"}, handler |-> "submit"],
       [names |-> {"test", "t"}, handler |-> "test"],
       [names |-> {"test-reactive", "t/r", "t"}, handler |-> "test_reactive"],
       [names |-> {"generate-output", "g/o"}, handler |-> "generate_output"],
       [names |-> {"generate-input", "g/i"}, handler |-> "generate_input"] >>

\* run_program: the name lists of the if/elif chain, in the order tested,
\* each with the handler its branch calls
Entries ==
    << [names |-> {"download", "d", "dl"}, handler |-> "download"],
       [names |-> {"login", "l"}, handler |-> "login"],
       [names |-> {"submit", "s"}, handler |-> "submit"],
       [names |-> {"test", "t"}, handler |-> "test"],
       [names |-> {"test-reactive", "t/r"}, handler |-> "test_reactive"],
       [names |-> {"generate-output", "g/o"}, handler |-> "generate_output"],
       [names |-> {"generate-input", "g/i"}, handler |-> "generate_input"] >>

\* variant: the alias g/i is listed under generate-output
resolve_alias_moved(token) ==
    IF token \in {"download", "d", "dl"} THEN "download"
    ELSE IF token \in {"login", "l"} THEN "login"
    ELSE IF token \in {"submit", "s"} THEN "submit"
    ELSE IF token \in {"test", "t"} THEN "test"
    ELSE IF token \in {"test-reactive", "t/r"} THEN "test_reactive"
    ELSE IF token \in {"generate-output", "g/o", "g/i"} THEN "generate_output"
    ELSE IF token \in {"generate-input"} THEN "generate_input"
    ELSE NotFound

\* run_program: the if/elif chain over args.subcommand
resolve(token) ==
    IF token \in {"download", "d", "dl"} THEN "download"
    ELSE IF token \in {"login", "l"} THEN "login"
    ELSE IF token \in {"submit", "s"} THEN "submit"
    ELSE IF token \in {"test", "t"} THEN "test"
    ELSE IF token \in {"test-reactive", "t/r"} THEN "test_reactive"
    ELSE IF token \in {"generate-output", "g/o"} THEN "generate_output"
    ELSE IF token \in {"generate-input", "g/i"} THEN "generate_input"
    ELSE NotFound

\* variant: help goes to the standard output
help_file_stdout == "stdout"

\* parser.print_help(file=sys.stderr)
help_file == "stderr"

help_text == <<"usage:", "full help">>

\* sys.exit(1) of the else branch of run_program
HelpExitCode == 1

\* sys.exit(1) at the end of both except clauses of main
FailureExitCode == 1

\* exit status of a process whose main returned
ReturnExitCode == 0

\* exit status of a process that dies of an uncaught exception
UncaughtExitCode == 1

\* variant: the test of is_updated is inverted
hint_needed_inverted(updated) == updated

\* variant: the hint is given unconditionally
hint_needed_always(updated) == TRUE

\* `if not is_updated:` in both except clauses
hint_needed(updated) == ~updated

hint_text ==
    <<"utils.HINT", "try updating the version of online-judge-tools">>

traceback_text == <<"\n", "traceback.format_exc()">>

marker_text == <<"NotImplementedError">>

note_text ==
    <<"The operation you specified is not supported yet. Pull requests are welcome.">>

see_text == <<"see: https://github.com/online-judge-tools/oj">>

\* str(e) of an exception built from one message argument
str_e(msg) == <<msg>>

NoOutcome == [kind |-> "none", cls |-> "", msg |-> "", code |-> 0]

----------------------------------------------------------------------------
(* State machine *)

Init ==
    /\ pc = "start"
    /\ args = parse_args(FALSE, NoToken, FALSE, NoToken)
    /\ rootLevel = WARNING
    /\ rootHandlers = <<>>
    /\ basicConfigCalls = 0
    /\ is_updated = <<>>
    /\ advisoryOutcome = "none"
    /\ advisoryQueries = 0
    /\ invoked = <<>>
    /\ outcome = NoOutcome
    /\ out = <<>>
    /\ exitCode = -1
    /\ escaped = "none"
    /\ steps = <<>>

\* main: parser.parse_args(args=args) accepts the command line
Parse ==
    /\ pc = "start"
    /\ \E verbose \in BOOLEAN, cookie \in CookieOptions, version \in BOOLEAN,
          subcommand \in SubcommandTokens :
          args' = parse_args(verbose, cookie, version, subcommand)
    /\ pc' = "configure"
    /\ steps' = Append(steps, "Parsed")
    /\ UNCHANGED <<rootLevel, rootHandlers, basicConfigCalls, is_updated,
                   advisoryOutcome, advisoryQueries, invoked, outcome, out,
                   exitCode, escaped>>

\* variant: the logger is configured before the command line is parsed
ParseError_after_logging ==
    /\ pc = "start"
    /\ pc' = "done"
    /\ basicConfigCalls' = basicConfigCalls + 1
    /\ rootLevel' = INFO
    /\ rootHandlers' = <<"stdout">>
    /\ out' = Append(out, Printed("stderr", <<"usage:", "error:">>))
    /\ exitCode' = UsageErrorExitCode
    /\ escaped' = "SystemExit"
    /\ steps' = Append(steps, "UsageError")
    /\ UNCHANGED <<args, is_updated, advisoryOutcome, advisoryQueries,
                   invoked, outcome>>

\* main: parser.parse_args(args=args) rejects the command line (usage error)
ParseError ==
    /\ pc = "start"
    /\ pc' = "done"
    /\ out' = Append(out, Printed("stderr", <<"usage:", "error:">>))
    /\ exitCode' = UsageErrorExitCode
    /\ escaped' = "SystemExit"
    /\ steps' = Append(steps, "UsageError")
    /\ UNCHANGED <<args, rootLevel, rootHandlers, basicConfigCalls,
                   is_updated, advisoryOutcome, advisoryQueries, invoked,
                   outcome>>

\* variant: --version returns before the logger is configured
ConfigureLogging_skipped_for_version ==
    /\ pc = "configure"
    /\ IF args.version
       THEN /\ UNCHANGED <<rootLevel, rootHandlers, basicConfigCalls>>
            /\ steps' = Append(steps, "VersionChecked")
       ELSE /\ basicConfigCalls' = basicConfigCalls + 1
            /\ rootLevel' = (IF args.verbose THEN DEBUG ELSE INFO)
            /\ rootHandlers' = <<"stdout">>
            /\ steps' = Append(steps, "LoggingConfigured")
    /\ pc' = "check_update"
    /\ UNCHANGED <<args, is_updated, advisoryOutcome, advisoryQueries,
                   invoked, outcome, out, exitCode, escaped>>

\* variant: basicConfig(level=INFO) first, then basicConfig(level=DEBUG) when
\* verbose; the second call finds the root logger configured
ConfigureLogging_twice ==
    /\ pc = "configure"
    /\ basicConfigCalls' = basicConfigCalls + (IF args.verbose THEN 2 ELSE 1)
    /\ IF Len(rootHandlers) = 0
       THEN /\ rootLevel' = INFO
            /\ rootHandlers' = <<"stdout">>
       ELSE UNCHANGED <<rootLevel, rootHandlers>>
    /\ pc' = "check_update"
    /\ steps' = Append(steps, "LoggingConfigured")
    /\ UNCHANGED <<args, is_updated, advisoryOutcome, advisoryQueries,
                   invoked, outcome, out, exitCode, escaped>>

\* main: configure the logger; basicConfig does nothing when the root logger
\* already has handlers
ConfigureLogging ==
    /\ pc = "configure"
    /\ basicConfigCalls' = basicConfigCalls + 1
    /\ IF Len(rootHandlers) = 0
       THEN /\ rootLevel' = level_for(args.verbose)
            /\ rootHandlers' = <<handler_stream>>
       ELSE UNCHANGED <<rootLevel, rootHandlers>>
    /\ pc' = "check_update"
    /\ steps' = Append(steps, "LoggingConfigured")
    /\ UNCHANGED <<args, is_updated, advisoryOutcome, advisoryQueries,
                   invoked, outcome, out, exitCode, escaped>>

\* variant: the update check is skipped when --version is given
CheckUpdate_skipped_for_version ==
    /\ pc = "check_update"
    /\ IF args.version
       THEN /\ is_updated' = <<TRUE>>
            /\ UNCHANGED <<advisoryOutcome, advisoryQueries>>
       ELSE /\ \E o \in AdvisoryOutcomes :
                  /\ advisoryOutcome' = o
                  /\ is_updated' = <<o # "not current">>
            /\ advisoryQueries' = advisoryQueries + 1
    /\ pc' = "run_program"
    /\ steps' = Append(steps, "AdvisoryChecked")
    /\ UNCHANGED <<args, rootLevel, rootHandlers, basicConfigCalls, invoked,
                   outcome, out, exitCode, escaped>>

\* variant: update_checking.run() is called a second time and the second
\* result is the one kept
CheckUpdate_queried_twice ==
    /\ pc = "check_update"
    /\ \E o1 \in AdvisoryOutcomes, o2 \in AdvisoryOutcomes :
          /\ advisoryOutcome' = o1
          /\ is_updated' = <<o2 # "not current">>
    /\ advisoryQueries' = advisoryQueries + 2
    /\ pc' = "run_program"
    /\ steps' = Append(steps, "AdvisoryChecked")
    /\ UNCHANGED <<args, rootLevel, rootHandlers, basicConfigCalls, invoked,
                   outcome, out, exitCode, escaped>>

\* main: is_updated = update_checking.run()
CheckUpdate ==
    /\ pc = "check_update"
    /\ \E o \in AdvisoryOutcomes :
          /\ advisoryOutcome' = o
          /\ is_updated' = <<update_checking_run(o)>>
    /\ advisoryQueries' = advisoryQueries + 1
    /\ pc' = "run_program"
    /\ steps' = Append(steps, "AdvisoryChecked")
    /\ UNCHANGED <<args, rootLevel, rootHandlers, basicConfigCalls, invoked,
                   outcome, out, exitCode, escaped>>

\* run_program: `if args.version:` taken; SystemExit(0) passes both except
\* clauses of main
PrintVersion ==
    /\ pc = "run_program"
    /\ args.version
    /\ out' = Append(out, Printed("stdout", version_line))
    /\ exitCode' = IF except_clause("SystemExit") = 0
                   THEN VersionExitCode ELSE FailureExitCode
    /\ escaped' = "SystemExit"
    /\ pc' = "done"
    /\ steps' = Append(steps, "VersionPrinted")
    /\ UNCHANGED <<args, rootLevel, rootHandlers, basicConfigCalls,
                   is_updated, advisoryOutcome, advisoryQueries, invoked,
                   outcome>>

\* run_program: `if args.version:` not taken; the two log calls before dispatch
LogVersion ==
    /\ pc = "run_program"
    /\ ~args.version
    /\ out' = Log(Log(out, rootLevel, rootHandlers, DEBUG, <<"args:">>, FALSE),
                  rootLevel, rootHandlers, INFO, version_log_line, FALSE)
    /\ pc' = "dispatch"
    /\ steps' = Append(steps, "VersionChecked")
    /\ UNCHANGED <<args, rootLevel, rootHandlers, basicConfigCalls,
                   is_updated, advisoryOutcome, advisoryQueries, invoked,
                   outcome, exitCode, escaped>>

\* run_program: a branch of the if/elif chain calls its handler
Dispatch ==
    /\ pc = "dispatch"
    /\ resolve(args.subcommand) # NotFound
    /\ invoked' = Append(invoked, resolve(args.subcommand))
    /\ pc' = "handler"
    /\ steps' = Append(steps, "Dispatched")
    /\ UNCHANGED <<args, rootLevel, rootHandlers, basicConfigCalls,
                   is_updated, advisoryOutcome, advisoryQueries, outcome, out,
                   exitCode, escaped>>

\* run_program: the else branch, print_help and sys.exit(1)
NoSubcommand ==
    /\ pc = "dispatch"
    /\ resolve(args.subcommand) = NotFound
    /\ out' = Append(out, Printed(help_file, help_text))
    /\ exitCode' = IF except_clause("SystemExit") = 0
                   THEN HelpExitCode ELSE FailureExitCode
    /\ escaped' = "SystemExit"
    /\ pc' = "done"
    /\ steps' = Append(steps, "HelpPrinted")
    /\ UNCHANGED <<args, rootLevel, rootHandlers, basicConfigCalls,
                   is_updated, advisoryOutcome, advisoryQueries, invoked,
                   outcome>>

\* the handler returns; run_program and main return
HandlerReturns ==
    /\ pc = "handler"
    /\ outcome' = [NoOutcome EXCEPT !.kind = "return"]
    /\ exitCode' = ReturnExitCode
    /\ pc' = "done"
    /\ steps' = Append(steps, "Succeeded")
    /\ UNCHANGED <<args, rootLevel, rootHandlers, basicConfigCalls,
                   is_updated, advisoryOutcome, advisoryQueries, invoked,
                   out, escaped>>

\* what main's try statement does with an exception of class cls and message
\* msg that leaves run_program
Handle(cls, msg) ==
    LET hint(o) == IF hint_needed(is_updated[1])
                   THEN Log(o, rootLevel, rootHandlers, INFO, hint_text, FALSE)
                   ELSE o
        trace(o) == Log(o, rootLevel, rootHandlers, DEBUG, traceback_text, FALSE)
        info(o, t) == Log(o, rootLevel, rootHandlers, INFO, t, FALSE)
    IN  CASE except_clause(cls) = 1 ->
               /\ out' = hint(info(info(
                           Log(trace(out), rootLevel, rootHandlers, ERROR,
                               marker_text, FALSE),
                           note_text), see_text))
               /\ exitCode' = FailureExitCode
               /\ escaped' = "SystemExit"
          [] except_clause(cls) = 2 ->
               /\ out' = hint(Log(trace(out), rootLevel, rootHandlers, ERROR,
                                  str_e(msg), TRUE))
               /\ exitCode' = FailureExitCode
               /\ escaped' = "SystemExit"
          [] OTHER ->
               /\ out' = out
               /\ exitCode' = UncaughtExitCode
               /\ escaped' = cls

\* variant: a failed handler is tried a second time
HandlerRaises_retried ==
    /\ pc = "handler"
    /\ \E cls \in ExcClasses \ {"SystemExit"}, msg \in Messages :
          /\ outcome' = [NoOutcome EXCEPT !.kind = "raise", !.cls = cls,
                                          !.msg = msg]
          /\ IF Len(invoked) < 2
             THEN /\ pc' = "dispatch"
                  /\ UNCHANGED <<out, exitCode, escaped>>
             ELSE /\ pc' = "done"
                  /\ Handle(cls, msg)
    /\ steps' = Append(steps, "Failed")
    /\ UNCHANGED <<args, rootLevel, rootHandlers, basicConfigCalls,
                   is_updated, advisoryOutcome, advisoryQueries, invoked>>

\* the handler raises an exception (not SystemExit); main's except clauses
HandlerRaises ==
    /\ pc = "handler"
    /\ \E cls \in ExcClasses \ {"SystemExit"}, msg \in Messages :
          /\ outcome' = [NoOutcome EXCEPT !.kind = "raise", !.cls = cls,
                                          !.msg = msg]
          /\ Handle(cls, msg)
    /\ pc' = "done"
    /\ steps' = Append(steps, "Failed")
    /\ UNCHANGED <<args, rootLevel, rootHandlers, basicConfigCalls,
                   is_updated, advisoryOutcome, advisoryQueries, invoked>>

\* variant: the handler's SystemExit is turned into main's own sys.exit(1)
HandlerExits_recoded ==
    /\ pc = "handler"
    /\ \E c \in 0..MaxExitCode :
          outcome' = [NoOutcome EXCEPT !.kind = "exit",
                                       !.cls = "SystemExit", !.code = c]
    /\ out' = out
    /\ exitCode' = FailureExitCode
    /\ escaped' = "SystemExit"
    /\ pc' = "done"
    /\ steps' = Append(steps, "Exited")
    /\ UNCHANGED <<args, rootLevel, rootHandlers, basicConfigCalls,
                   is_updated, advisoryOutcome, advisoryQueries, invoked>>

\* the handler calls sys.exit(c) itself; SystemExit passes both except clauses
HandlerExits ==
    /\ pc = "handler"
    /\ \E c \in 0..MaxExitCode :
          /\ outcome' = [NoOutcome EXCEPT !.kind = "exit",
                                          !.cls = "SystemExit", !.code = c]
          /\ IF except_clause("SystemExit") = 0
             THEN /\ out' = out
                  /\ exitCode' = c
                  /\ escaped' = "SystemExit"
             ELSE Handle("SystemExit", "")
    /\ pc' = "done"
    /\ steps' = Append(steps, "Exited")
    /\ UNCHANGED <<args, rootLevel, rootHandlers, basicConfigCalls,
                   is_updated, advisoryOutcome, advisoryQueries, invoked>>

Next ==
    \/ Parse
    \/ ParseError
    \/ ConfigureLogging
    \/ CheckUpdate
    \/ PrintVersion
    \/ LogVersion
    \/ Dispatch
    \/ NoSubcommand
    \/ HandlerReturns
    \/ HandlerRaises
    \/ HandlerExits

Spec == Init /\ [][Next]_vars

----------------------------------------------------------------------------
(* Properties *)

\* the command line was accepted by the parser
Parsed == Len(steps) > 0 /\ steps[1] = "Parsed"

\* the alias table of the command line interface: token -> subcommand handler
AliasTable ==
    [t \in TableTokens |->
        CASE t \in {"download", "d", "dl"} -> "download"
          [] t \in {"login", "l"} -> "login"
          [] t \in {"submit", "s"} -> "submit"
          [] t \in {"test", "t"} -> "test"
          [] t \in {"test-reactive", "t/r"} -> "test_reactive"
          [] t \in {"generate-output", "g/o"} -> "generate_output"
          [] t \in {"generate-input", "g/i"} -> "generate_input"]

HintEmitted == \E i \in 1..Len(out) : out[i].text = hint_text

HandlerFailed == outcome.kind = "raise"

\* C1: a run with the version flag set prints a line holding both the tool
\* version and the API-client version, exits with code 0, and never invokes a
\* subcommand handler, whatever the other arguments are.
C1_VersionShortCircuit ==
    (Parsed /\ args.version) =>
        /\ invoked = <<>>
        /\ outcome = NoOutcome
        /\ pc \notin {"dispatch", "handler"}
        /\ pc = "done" =>
             /\ exitCode = 0
             /\ \E i \in 1..Len(out) :
                   /\ out[i].via = "print"
                   /\ Contains(out[i].text, tool_version)
                   /\ Contains(out[i].text, api_client_version)

C1_Witness ==
    /\ pc = "done"
    /\ args.version
    /\ args.verbose
    /\ args.subcommand = "download"
    /\ args.cookie = "custom.jar"
    /\ exitCode = 0

\* C2 (as stated): in a run with the version flag set the update advisory is
\* never queried.
C2_AdvisoryNeverQueriedOnVersion ==
    (Parsed /\ args.version) => advisoryQueries = 0

\* C2 (amended): in a run with the version flag set the update advisory is
\* queried exactly once, after logging is configured and before run_program
\* tests the version flag; it is not queried again once the version line is
\* printed.
C2_AdvisoryQueriedOnceBeforeVersion ==
    (Parsed /\ args.version) =>
        /\ advisoryQueries = (IF pc \in {"run_program", "done"} THEN 1 ELSE 0)
        /\ pc = "done" =>
             steps = <<"Parsed", "LoggingConfigured", "AdvisoryChecked",
                       "VersionPrinted">>

C2_Witness ==
    /\ pc = "done"
    /\ args.version
    /\ advisoryQueries = 1
    /\ advisoryOutcome = "not current"
    /\ steps[Len(steps)] = "VersionPrinted"

\* C3: without the version flag, a token that is a canonical subcommand name
\* or one of its aliases invokes the handler of that subcommand and no other;
\* a token outside the table invokes no handler.
C3_AliasResolution ==
    (Parsed /\ ~args.version /\ pc \in {"handler", "done"}) =>
        invoked = (IF args.subcommand \in TableTokens
                   THEN <<AliasTable[args.subcommand]>>
                   ELSE <<>>)

C3_Witness ==
    /\ pc = "handler"
    /\ args.subcommand = "g/i"
    /\ invoked = <<"generate_input">>

C5_NotSupportedClassification ==
    (HandlerFailed /\ outcome.cls = "NotImplementedError") =>
        /\ \E i \in 1..Len(out) :
              /\ out[i].level = ERROR
              /\ out[i].text = <<"NotImplementedError">>
              /\ ~out[i].exc_info
        /\ \E i \in 1..Len(out) :
              /\ out[i].level = INFO
              /\ out[i].text = note_text
        /\ \A i \in 1..Len(out) : ~out[i].exc_info
        /\ exitCode = 1
        /\ pc = "done"

C5_Witness ==
    /\ pc = "done"
    /\ outcome.kind = "raise"
    /\ outcome.cls = "NotImplementedError"
    /\ outcome.msg = "boom"
    /\ exitCode = 1

\* C6: when the handler raises a failure other than NotImplementedError with
\* message m, an error-level line containing m is emitted, the exit code is 1
\* and the failure does not leave main.
C6_UnhandledClassification ==
    (HandlerFailed /\ outcome.cls # "NotImplementedError") =>
        /\ \E i \in 1..Len(out) :
              /\ out[i].level = ERROR
              /\ Contains(out[i].text, outcome.msg)
        /\ exitCode = 1
        /\ escaped = "SystemExit"
        /\ pc = "done"

C6_Witness ==
    /\ pc = "done"
    /\ outcome.kind = "raise"
    /\ outcome.cls = "RuntimeError"
    /\ outcome.msg = "boom"
    /\ exitCode = 1

\* C7: the upgrade hint is emitted exactly in the runs whose handler failed
\* (either class) while the advisory had returned is_updated = False; a run
\* without a handler failure never emits it.
C7_HintIffNotCurrent ==
    HintEmitted <=> (HandlerFailed /\ is_updated = <<FALSE>>)

C7_Witness ==
    /\ pc = "done"
    /\ HandlerFailed
    /\ is_updated = <<FALSE>>
    /\ HintEmitted

C9_ExitCodeZeroOrOne ==
    (Parsed /\ pc = "done") =>
        /\ exitCode \in {0, 1}
        /\ exitCode = 0 <=> (args.version \/ outcome.kind = "return")

\* C9 (amended): every run that gets past argument parsing and whose handler
\* does not end the process itself (sys.exit inside the handler) ends with
\* exit code 0 or 1, 0 exactly when the version flag was set or the handler
\* returned normally, 1 on a missing or unknown subcommand and on either
\* failure class; a handler that calls sys.exit(c) ends the run with code c.
C9_ExitCodePolicy ==
    (Parsed /\ pc = "done") =>
        IF outcome.kind = "exit"
        THEN exitCode = outcome.code
        ELSE /\ exitCode \in {0, 1}
             /\ exitCode = 0 <=> (args.version \/ outcome.kind = "return")
             /\ (~args.version /\ args.subcommand \notin TableTokens)
                   => exitCode = 1
             /\ HandlerFailed => exitCode = 1

C9_Witness ==
    /\ pc = "done"
    /\ outcome.kind = "exit"
    /\ outcome.code = 2
    /\ exitCode = 2

\* C10: the severity configured for a run is DEBUG exactly when the verbose
\* flag is set and INFO otherwise, with one sink on the standard output,
\* whatever the other arguments are.
C10_LoggingSeverity ==
    (Parsed /\ pc # "configure") =>
        /\ rootLevel = (IF args.verbose THEN DEBUG ELSE INFO)
        /\ rootHandlers = <<"stdout">>

C10_Witness ==
    /\ pc = "check_update"
    /\ args.verbose
    /\ args.version
    /\ rootLevel = DEBUG
    /\ Len(rootHandlers) = 1

\* position of the first occurrence of step name n in steps, 0 if absent
StepIndex(n) ==
    IF \E i \in 1..Len(steps) : steps[i] = n
    THEN CHOOSE i \in 1..Len(steps) :
            steps[i] = n /\ \A j \in 1..(i - 1) : steps[j] # n
    ELSE 0

\* position of the test of the version flag in steps, 0 if not yet made
VersionCheckIndex ==
    IF StepIndex("VersionPrinted") > 0 THEN StepIndex("VersionPrinted")
    ELSE StepIndex("VersionChecked")

\* C11 (as stated): the steps occur in the order Parsed, VersionCheck,
\* LoggingConfigured, AdvisoryChecked, Dispatched: the version flag is tested
\* before logging is configured and before the advisory is queried, and a run
\* with the version flag set ends without logging being configured.
C11_VersionCheckBeforeLogging ==
    Parsed =>
        /\ StepIndex("LoggingConfigured") > 0 =>
              (VersionCheckIndex > 0
                 /\ VersionCheckIndex < StepIndex("LoggingConfigured"))
        /\ StepIndex("AdvisoryChecked") > 0 =>
              (VersionCheckIndex > 0
                 /\ VersionCheckIndex < StepIndex("AdvisoryChecked"))
        /\ args.version => (basicConfigCalls = 0 /\ rootHandlers = <<>>)

\* C11 (amended): the steps occur in the order Parsed, LoggingConfigured,
\* AdvisoryChecked, VersionCheck, Dispatched, each only after the previous
\* one: the version flag is tested after logging is configured and after the
\* advisory is queried, so a run with the version flag set ends with logging
\* configured and the advisory queried, and without a dispatch.
C11_PipelineOrder ==
    Parsed =>
        /\ \A i \in 1..Len(steps) :
              steps[i] \in
                 CASE i = 1 -> {"Parsed"}
                   [] i = 2 -> {"LoggingConfigured"}
                   [] i = 3 -> {"AdvisoryChecked"}
                   [] i = 4 -> {"VersionChecked", "VersionPrinted"}
                   [] i = 5 -> {"Dispatched", "HelpPrinted"}
                   [] i = 6 -> {"Succeeded", "Failed", "Exited"}
                   [] OTHER -> {}
        /\ (Len(steps) >= 5 \/ invoked # <<>>) => steps[4] = "VersionChecked"
        /\ Len(steps) >= 2 => basicConfigCalls = 1
        /\ Len(steps) >= 3 <=> advisoryQueries = 1
        /\ (args.version /\ pc = "done") =>
              /\ Len(steps) = 4
              /\ steps[4] = "VersionPrinted"
              /\ rootHandlers # <<>>

C11_Witness ==
    /\ pc = "done"
    /\ args.version
    /\ ~args.verbose
    /\ basicConfigCalls = 1
    /\ rootLevel = INFO
    /\ advisoryOutcome = "current"
    /\ steps[4] = "VersionPrinted"

\* C12: the logging configuration is written exactly once per run, before
\* the advisory query and before any handler is invoked, and no later step
\* (the handler call and the except clauses included) writes it again.
C12_LoggingConfiguredOnce ==
    /\ [](/\ basicConfigCalls <= 1
          /\ (Parsed /\ pc # "configure") => basicConfigCalls = 1
          /\ (advisoryQueries > 0 \/ invoked # <<>>) => basicConfigCalls = 1
          /\ basicConfigCalls = 0 => (rootHandlers = <<>> /\ rootLevel = WARNING))
    /\ [][basicConfigCalls = 1 =>
             /\ basicConfigCalls' = basicConfigCalls
             /\ rootLevel' = rootLevel
             /\ rootHandlers' = rootHandlers]_vars

C12_Witness ==
    /\ pc = "done"
    /\ HandlerFailed
    /\ args.verbose
    /\ basicConfigCalls = 1
    /\ rootLevel = DEBUG
    /\ Len(out) >= 3

\* C13: a run invokes at most one handler, at most once: once a handler has
\* returned or failed, no handler is invoked again in that run.
C13_NoRetry ==
    /\ [](/\ Len(invoked) <= 1
          /\ outcome.kind # "none" => (Len(invoked) = 1 /\ pc = "done")
          /\ pc = "handler" => (Len(invoked) = 1 /\ outcome.kind = "none"))
    /\ [][outcome.kind # "none" =>
             (invoked' = invoked /\ outcome' = outcome)]_vars

C13_Witness ==
    /\ pc = "done"
    /\ HandlerFailed
    /\ outcome.cls = "Exception"
    /\ invoked = <<"submit">>
    /\ steps[Len(steps)] = "Failed"

\* C14: the advisory is queried at most once per run; a run that invokes a
\* handler has queried it exactly once and the query was over before the
\* handler started; the boolean kept from that query is the one the except
\* clauses of main test.
C14_AdvisoryOnceBeforeHandler ==
    /\ advisoryQueries <= 1
    /\ Len(is_updated) = advisoryQueries
    /\ advisoryQueries = 1 <=> advisoryOutcome # "none"
    /\ invoked # <<>> =>
          /\ advisoryQueries = 1
          /\ StepIndex("AdvisoryChecked") > 0
          /\ StepIndex("AdvisoryChecked") < StepIndex("Dispatched")
    /\ pc = "check_update" => (invoked = <<>> /\ outcome.kind = "none")
    /\ HandlerFailed =>
          (HintEmitted <=> advisoryOutcome = "not current")

C14_Witness ==
    /\ pc = "handler"
    /\ advisoryQueries = 1
    /\ advisoryOutcome = "not current"
    /\ is_updated = <<FALSE>>
    /\ invoked = <<"login">>

\* the entries of the chain whose name list holds token t
Matching(t) == {i \in 1..Len(Entries) : t \in Entries[i].names}

\* C15: the table used for dispatch has no collisions: no token belongs to
\* two entries, so the handler invoked for a token is the same whichever
\* matching entry is taken (first or last in the order of the tests).
C15_NoAliasCollision ==
    /\ \A i \in 1..Len(Entries), j \in 1..Len(Entries) :
          i # j => /\ Entries[i].names \cap Entries[j].names = {}
                   /\ Entries[i].handler # Entries[j].handler
    /\ invoked # <<>> =>
          /\ Cardinality(Matching(args.subcommand)) = 1
          /\ \A i \in Matching(args.subcommand) :
                invoked = <<Entries[i].handler>>
    /\ (pc \in {"handler", "done"} /\ ~args.version /\ invoked = <<>>
          /\ Parsed) => Matching(args.subcommand) = {}

C15_Witness ==
    /\ pc = "handler"
    /\ args.subcommand = "t"
    /\ invoked = <<"test">>
    /\ Matching("t") = {4}

\* C16: a handler that ends the process itself with sys.exit(c) is put in
\* neither failure class: main logs no error line and no upgrade hint, even
\* when the advisory returned "not current", and the process exits with the
\* handler's code c.
C16_HandlerSystemExit ==
    outcome.kind = "exit" =>
        /\ pc = "done"
        /\ exitCode = outcome.code
        /\ escaped = "SystemExit"
        /\ ~HintEmitted
        /\ \A i \in 1..Len(out) :
              /\ out[i].level # ERROR
              /\ out[i].text \notin {marker_text, note_text, traceback_text}
        /\ Len(out) = Len(SelectSeq(out, LAMBDA r :
                              r.text \in {<<"args:">>, version_log_line}))

C16_Witness ==
    /\ pc = "done"
    /\ outcome.kind = "exit"
    /\ outcome.code = 0
    /\ is_updated = <<FALSE>>
    /\ args.verbose
    /\ exitCode = 0

\* C17: when the parser rejects the command line with a usage error the
\* process exits non-zero at once: logging is not configured, the advisory is
\* not queried and no handler is invoked.
C17_UsageErrorStopsRun ==
    (Len(steps) > 0 /\ steps[1] = "UsageError") =>
        /\ pc = "done"
        /\ steps = <<"UsageError">>
        /\ exitCode # 0
        /\ exitCode # -1
        /\ basicConfigCalls = 0
        /\ rootHandlers = <<>>
        /\ rootLevel = WARNING
        /\ advisoryQueries = 0
        /\ is_updated = <<>>
        /\ invoked = <<>>
        /\ outcome = NoOutcome

C17_Witness ==
    /\ pc = "done"
    /\ steps = <<"UsageError">>
    /\ exitCode = UsageErrorExitCode
    /\ Len(out) = 1

====
